---- MODULE Spec2Model ----
(***************************************************************************)
(* A model of the RabbitMQ agent check (src/rabbitmq/check.py).            *)
(*                                                                         *)
(* One RabbitMQ check object serves a list of configured instances.  The   *)
(* scheduler calls check(instance) for one of them at a time; the call     *)
(* fetches /queues, /nodes, /vhosts and /aliveness-test/<vhost> from the   *)
(* management API, filters and truncates the record lists, extracts the    *)
(* gauges and emits service checks and events.                             *)
(*                                                                         *)
(* Strings that the code takes apart or concatenates (names, vhosts,       *)
(* urls, regex subjects) are sequences of one-character strings.  Keys of  *)
(* JSON objects, metric names and exception names are atomic strings.      *)
(* A JSON value is a tagged record: Num, Str, List, Dict or Null.          *)
(***************************************************************************)
EXTENDS Integers, Sequences, FiniteSets, TLC

VARIABLES
    yaml,             \* the instances as the configuration file states them
    instances,        \* the instance mappings the check object is called with
    api,              \* what the management API answers, per base url
    already_alerted,  \* self.already_alerted
    out,              \* what the last check(instance) did
    alerts,           \* every 'approaching the limit' event posted so far
    exceeded          \* the (base_url, object_type) pairs of the get_stats calls
                      \* whose filtered list was above the alert threshold

vars == <<yaml, instances, api, already_alerted, out, alerts, exceeded>>

----------------------------------------------------------------------------
(* JSON values and Python lists                                            *)

Num(n) == [t |-> "num", n |-> n]
Str(s) == [t |-> "str", s |-> s]
List(l) == [t |-> "list", l |-> l]
Dict(d) == [t |-> "dict", d |-> d]
Null == [t |-> "null"]

\* dict.get(key, default); dict.get(key) is DictGet(d, key, Null)
DictGet(d, key, default) == IF key \in DOMAIN d THEN d[key] ELSE default

\* d[key] = value
DictSet(d, key, value) ==
    [k \in DOMAIN d \cup {key} |-> IF k = key THEN value ELSE d[k]]

\* Python truthiness of a JSON value (`if tag:`)
Truthy(v) ==
    CASE v.t = "null" -> FALSE
      [] v.t = "num" -> v.n # 0
      [] v.t = "str" -> v.s # <<>>
      [] v.t = "list" -> v.l # <<>>
      [] v.t = "dict" -> DOMAIN v.d # {}

\* x in l
InList(x, l) == \E i \in 1..Len(l) : l[i] = x

\* the index of the first occurrence of x in l (x is in l)
IndexOf(x, l) == CHOOSE i \in 1..Len(l) : l[i] = x /\ \A j \in 1..(i - 1) : l[j] # x

\* A variant of l.remove(x) that forgets the removal
ListRemoveNothing(l, x) == l

\* l.remove(x): the first occurrence only
ListRemove(l, x) ==
    LET i == IndexOf(x, l) IN SubSeq(l, 1, i - 1) \o SubSeq(l, i + 1, Len(l))

----------------------------------------------------------------------------
(* Module constants                                                        *)

QUEUE_TYPE == <<"q", "u", "e", "u", "e", "s">>
NODE_TYPE == <<"n", "o", "d", "e", "s">>
MAX_DETAILED_QUEUES == 200
MAX_DETAILED_NODES == 100

\* ALERT_THRESHOLD = 0.9, as the fraction ALERT_THRESHOLD_NUM / ALERT_THRESHOLD_DEN
ALERT_THRESHOLD_NUM == 9
ALERT_THRESHOLD_DEN == 10

\* (path split on '/', metric name, operation)
QUEUE_ATTRIBUTES == <<
    <<(<<"active_consumers">>), "active_consumers", "float">>,
    <<(<<"consumers">>), "consumers", "float">>,
    <<(<<"consumer_utilisation">>), "consumer_utilisation", "float">>,
    <<(<<"memory">>), "memory", "float">>,
    <<(<<"messages">>), "messages", "float">>,
    <<(<<"messages_details", "rate">>), "messages.rate", "float">>,
    <<(<<"messages_ready">>), "messages_ready", "float">>,
    <<(<<"messages_ready_details", "rate">>), "messages_ready.rate", "float">>,
    <<(<<"messages_unacknowledged">>), "messages_unacknowledged", "float">>,
    <<(<<"messages_unacknowledged_details", "rate">>), "messages_unacknowledged.rate", "float">>,
    <<(<<"message_stats", "ack">>), "messages.ack.count", "float">>,
    <<(<<"message_stats", "ack_details", "rate">>), "messages.ack.rate", "float">>,
    <<(<<"message_stats", "deliver">>), "messages.deliver.count", "float">>,
    <<(<<"message_stats", "deliver_details", "rate">>), "messages.deliver.rate", "float">>,
    <<(<<"message_stats", "deliver_get">>), "messages.deliver_get.count", "float">>,
    <<(<<"message_stats", "deliver_get_details", "rate">>), "messages.deliver_get.rate", "float">>,
    <<(<<"message_stats", "publish">>), "messages.publish.count", "float">>,
    <<(<<"message_stats", "publish_details", "rate">>), "messages.publish.rate", "float">>,
    <<(<<"message_stats", "redeliver">>), "messages.redeliver.count", "float">>,
    <<(<<"message_stats", "redeliver_details", "rate">>), "messages.redeliver.rate", "float">> >>

NODE_ATTRIBUTES == <<
    <<(<<"fd_used">>), "fd_used", "float">>,
    <<(<<"mem_used">>), "mem_used", "float">>,
    <<(<<"run_queue">>), "run_queue", "float">>,
    <<(<<"sockets_used">>), "sockets_used", "float">>,
    <<(<<"partitions">>), "partitions", "len">> >>

ATTRIBUTES(object_type) ==
    IF object_type = QUEUE_TYPE THEN QUEUE_ATTRIBUTES ELSE NODE_ATTRIBUTES

\* source field -> tag key
TAGS_MAP(object_type) ==
    IF object_type = QUEUE_TYPE
    THEN [t \in {"node", "name", "vhost", "policy", "queue_family"} |->
            CASE t = "node" -> "node"
              [] t = "name" -> "queue"
              [] t = "vhost" -> "vhost"
              [] t = "policy" -> "policy"
              [] t = "queue_family" -> "queue_family"]
    ELSE [t \in {"name"} |-> "node"]

METRIC_SUFFIX(object_type) == IF object_type = QUEUE_TYPE THEN "queue" ELSE "node"

----------------------------------------------------------------------------
(* The transforms of the attribute tables                                  *)

Digits == <<"0", "1", "2", "3", "4", "5", "6", "7", "8", "9">>
IsDigit(c) == InList(c, Digits)
DigitValue(c) == IndexOf(c, Digits) - 1

RECURSIVE DecimalValue(_)
DecimalValue(s) ==
    IF s = <<>> THEN 0
    ELSE 10 * DecimalValue(SubSeq(s, 1, Len(s) - 1)) + DigitValue(s[Len(s)])

\* float(value): a number converts; a string converts when it spells a number
\* (over the letters and digits the model's strings are made of: when it is a
\* non-empty run of digits) and raises ValueError otherwise; a list or a
\* mapping raises TypeError.
Float(v) ==
    CASE v.t = "num" -> [exc |-> "None", n |-> v.n]
      [] v.t = "str" ->
            IF v.s # <<>> /\ \A i \in 1..Len(v.s) : IsDigit(v.s[i])
            THEN [exc |-> "None", n |-> DecimalValue(v.s)]
            ELSE [exc |-> "ValueError", n |-> 0]
      [] OTHER -> [exc |-> "TypeError", n |-> 0]

\* len(value): a string, a list or a mapping has a length; a number raises TypeError.
PyLen(v) ==
    CASE v.t = "str" -> [exc |-> "None", n |-> Len(v.s)]
      [] v.t = "list" -> [exc |-> "None", n |-> Len(v.l)]
      [] v.t = "dict" -> [exc |-> "None", n |-> Cardinality(DOMAIN v.d)]
      [] OTHER -> [exc |-> "TypeError", n |-> 0]

Operation(op, v) == IF op = "float" THEN Float(v) ELSE PyLen(v)

----------------------------------------------------------------------------
(* _get_metrics                                                            *)

\* tags: one 'rabbitmq_<tag key>:<value>' per truthy source field
MetricTags(data, object_type) ==
    LET tag_list == TAGS_MAP(object_type)
    IN  {[key |-> tag_list[t], value |-> data[t]] :
            t \in {u \in DOMAIN tag_list : Truthy(DictGet(data, u, Null))}}

\* Walk down through the data path: root = root.get(path, {}) for keys[:-1].
\* .get on a value that is no mapping raises AttributeError.
RECURSIVE WalkPath(_, _)
WalkPath(root, keys) ==
    IF keys = <<>> THEN [exc |-> "None", root |-> root]
    ELSE IF root.t # "dict" THEN [exc |-> "AttributeError", root |-> root]
    ELSE WalkPath(DictGet(root.d, Head(keys), Dict(<<>>)), Tail(keys))

\* Which exceptions the try block around self.gauge catches.
CaughtByGetMetrics(exc) == exc = "ValueError"

\* One pass of the attribute loop: what it emits, or the exception that leaves it.
GetMetricsAttr(data, object_type, attr) ==
    LET keys == attr[1]
        walked == WalkPath(Dict(data), SubSeq(keys, 1, Len(keys) - 1))
        root == walked.root
        value == DictGet(root.d, keys[Len(keys)], Null)
        res == Operation(attr[3], value)
    IN  IF walked.exc # "None" THEN [k |-> "raise", exc |-> walked.exc]
        ELSE IF root.t # "dict" THEN [k |-> "raise", exc |-> "AttributeError"]
        ELSE IF value.t = "null" THEN [k |-> "skip"]
        ELSE IF res.exc = "None"
             THEN [k |-> "gauge", metric |-> <<METRIC_SUFFIX(object_type), attr[2]>>,
                   value |-> res.n, tags |-> MetricTags(data, object_type)]
        ELSE IF CaughtByGetMetrics(res.exc) THEN [k |-> "debug", metric |-> attr[2]]
        ELSE [k |-> "raise", exc |-> res.exc]

\* The attribute loop, given what each pass r[i] would do: it is left at the first
\* pass that raises.
GetMetricsLoop(attrs, r) ==
    LET raising == {i \in 1..Len(attrs) : r[i].k = "raise"}
        stop == IF raising = {} THEN Len(attrs) + 1
                ELSE CHOOSE i \in raising : \A j \in raising : i <= j
    IN  [gauges |-> {[metric |-> r[i].metric, value |-> r[i].value, tags |-> r[i].tags] :
                        i \in {j \in 1..(stop - 1) : r[j].k = "gauge"}},
         debug |-> {attrs[i][2] : i \in {j \in 1..(stop - 1) : r[j].k = "debug"}},
         raised |-> IF raising = {} THEN "None" ELSE r[stop].exc]

\* _get_metrics(data, object_type): the gauges emitted, the debug lines logged and
\* the exception raised ("None": returned normally).
GetMetrics(data, object_type) ==
    GetMetricsLoop(ATTRIBUTES(object_type),
                   [i \in 1..Len(ATTRIBUTES(object_type)) |->
                       GetMetricsAttr(data, object_type, ATTRIBUTES(object_type)[i])])

----------------------------------------------------------------------------
(* re.search over the patterns the model uses                              *)

\* A pattern is a run of atoms, each a literal character or ANY ('.'), with at
\* most one capture group around atoms gs..ge (gs = 0: no group).
ANY == "ANY"
Pattern(atoms, gs, ge) == [atoms |-> atoms, gs |-> gs, ge |-> ge]

MatchAt(p, s, i) ==
    /\ i + Len(p.atoms) - 1 <= Len(s)
    /\ \A j \in 1..Len(p.atoms) : p.atoms[j] = ANY \/ p.atoms[j] = s[i + j - 1]

\* re.search(p, s): the leftmost match; groups is match.groups()
ReSearch(p, s) ==
    LET at == {i \in 1..(Len(s) + 1) : MatchAt(p, s, i)}
        i == CHOOSE k \in at : \A m \in at : k <= m
    IN  IF at = {} THEN [matched |-> FALSE, groups |-> <<>>]
        ELSE [matched |-> TRUE,
              groups |-> IF p.gs = 0 THEN <<>>
                         ELSE <<SubSeq(s, i + p.gs - 1, i + p.ge - 1)>>]

\* A variant of the regex loop without its break: the last matching pattern wins
LastMatching(regex_filters, s) ==
    LET hits == {i \in 1..Len(regex_filters) : ReSearch(regex_filters[i], s).matched}
    IN  IF hits = {} THEN 0 ELSE CHOOSE i \in hits : \A j \in hits : i >= j

\* the index of the first pattern of regex_filters that matches s, 0 if none does
FirstMatching(regex_filters, s) ==
    LET hits == {i \in 1..Len(regex_filters) : ReSearch(regex_filters[i], s).matched}
    IN  IF hits = {} THEN 0 ELSE CHOOSE i \in hits : \A j \in hits : i <= j

\* _is_affirmative, on the booleans the configuration holds
IsAffirmative(v) == v = TRUE

\* The body of `if match:`: tag the family when asked to and the pattern has a
\* group, and keep the line.
TagFamily(data_line, match, tag_families) ==
    IF IsAffirmative(tag_families) /\ match.groups # <<>>
    THEN DictSet(data_line, "queue_family", Str(match.groups[1]))
    ELSE data_line

----------------------------------------------------------------------------
(* get_stats: the filtering pass                                           *)

\* '%s' % value
Format(v) ==
    CASE v.t = "str" -> v.s
      [] v.t = "null" -> <<"N", "o", "n", "e">>
      [] OTHER -> <<"?">>

\* '%s/%s' % (data_line.get("vhost"), name)
AbsoluteName(data_line, name) ==
    Format(DictGet(data_line, "vhost", Null)) \o <<"/">> \o name

\* One iteration of `for data_line in data`: whether the line is kept and by which
\* branch, the line as kept, and the explicit list after it.
FilterLine(data_line, explicit_filters, regex_filters, object_type, tag_families) ==
    LET name == Format(DictGet(data_line, "name", Null))
        byName == FirstMatching(regex_filters, name)
        absolute_name == AbsoluteName(data_line, name)
        byAbs == FirstMatching(regex_filters, absolute_name)
        Kept(how, line, explicit) ==
            [keep |-> TRUE, how |-> how, line |-> line, explicit |-> explicit]
    IN  IF InList(name, explicit_filters)
        THEN Kept("explicit", data_line, ListRemove(explicit_filters, name))
        ELSE IF byName # 0
        THEN Kept("regex",
                  TagFamily(data_line, ReSearch(regex_filters[byName], name), tag_families),
                  explicit_filters)
        ELSE IF object_type # QUEUE_TYPE
        THEN [keep |-> FALSE, how |-> "dropped", line |-> data_line,
              explicit |-> explicit_filters]
        ELSE IF InList(absolute_name, explicit_filters)
        THEN Kept("abs_explicit", data_line, ListRemove(explicit_filters, absolute_name))
        ELSE IF byAbs # 0
        THEN Kept("abs_regex",
                  TagFamily(data_line, ReSearch(regex_filters[byAbs], absolute_name),
                            tag_families),
                  explicit_filters)
        ELSE [keep |-> FALSE, how |-> "dropped", line |-> data_line,
              explicit |-> explicit_filters]

\* The loop over data: matching_lines, the branch that decided each line of data,
\* and the explicit list left over.
RECURSIVE FilterLines(_, _, _, _, _)
FilterLines(data, explicit_filters, regex_filters, object_type, tag_families) ==
    IF data = <<>>
    THEN [matching_lines |-> <<>>, how |-> <<>>, explicit |-> explicit_filters]
    ELSE LET r == FilterLine(Head(data), explicit_filters, regex_filters, object_type,
                             tag_families)
             rest == FilterLines(Tail(data), r.explicit, regex_filters, object_type,
                                 tag_families)
         IN  [matching_lines |-> (IF r.keep THEN <<r.line>> ELSE <<>>) \o rest.matching_lines,
              how |-> <<r.how>> \o rest.how,
              explicit |-> rest.explicit]

\* `if explicit_filters or regex_filters:` ... `data = matching_lines`
FilterData(data, explicit_filters, regex_filters, object_type, tag_families) ==
    IF explicit_filters # <<>> \/ regex_filters # <<>>
    THEN FilterLines(data, explicit_filters, regex_filters, object_type, tag_families)
    ELSE [matching_lines |-> data, how |-> [i \in 1..Len(data) |-> "all"],
          explicit |-> explicit_filters]

----------------------------------------------------------------------------
(* _get_data and the urls                                                  *)

\* urlparse.urljoin(base_url, path) for a base_url that ends with '/' and a
\* relative path
UrlJoin(base_url, path) == base_url \o path

\* urllib.quote_plus over the model's characters: letters and digits are kept,
\* '/' becomes %2F
RECURSIVE QuotePlus(_)
QuotePlus(s) ==
    IF s = <<>> THEN <<>>
    ELSE (IF Head(s) = "/" THEN <<"%", "2", "F">> ELSE <<Head(s)>>) \o QuotePlus(Tail(s))

\* How the server answers a url: no route is a 404 like any other error status.
Answer(srv, url) ==
    IF url \in DOMAIN srv THEN srv[url] ELSE [status |-> "http_error", json |-> Null]

\* _get_data(url): requests.get, raise_for_status and r.json(); RequestException
\* and ValueError both become RabbitMQException.
GetData(srv, url) ==
    LET r == Answer(srv, url)
    IN  IF r.status = "ok" THEN [exc |-> "None", json |-> r.json]
        ELSE [exc |-> "RabbitMQException", json |-> Null]

----------------------------------------------------------------------------
(* alert                                                                   *)

\* A variant of the key that leaves the object type out
AlertKeyUrlOnly(base_url, object_type) == base_url

\* key = "%s%s" % (base_url, object_type)
AlertKey(base_url, object_type) == base_url \o object_type

\* alert(base_url, max_detailed, size, object_type): self.already_alerted after
\* the call and the events it posted.
Alert(alerted, base_url, max_detailed, size, object_type) ==
    LET key == AlertKey(base_url, object_type)
    IN  IF InList(key, alerted) THEN [alerted |-> alerted, events |-> <<>>]
        ELSE [alerted |-> Append(alerted, key),
              events |-> <<[base_url |-> base_url, object_type |-> object_type,
                            size |-> size, max_detailed |-> max_detailed]>>]

\* len(data) > ALERT_THRESHOLD * max_detailed.  0.9 * m in double precision is
\* above 9m/10 by less than the gap to the next integer, so the comparison with
\* an integer length is the comparison of 10 * len with 9 * m.
AboveThreshold(size, max_detailed) ==
    ALERT_THRESHOLD_DEN * size > ALERT_THRESHOLD_NUM * max_detailed

----------------------------------------------------------------------------
(* get_stats                                                               *)

Min(a, b) == IF a <= b THEN a ELSE b
Max(a, b) == IF a >= b THEN a ELSE b

\* data[:m]
SliceTo(data, m) ==
    IF m >= 0 THEN SubSeq(data, 1, Min(Len(data), m))
    ELSE SubSeq(data, 1, Max(0, Len(data) + m))

\* A variant without the copy: explicit_filters = filters['explicit']
ExplicitFiltersShared(explicit) == [items |-> explicit, shared |-> TRUE]

\* explicit_filters = list(filters['explicit']): a new list, not the caller's
ExplicitFilters(explicit) == [items |-> explicit, shared |-> FALSE]

\* The extraction loop, given what _get_metrics does on each line (r[i]): it is
\* left at the first line whose extraction raises.
ExtractLoop(lines, r) ==
    LET raising == {i \in 1..Len(lines) : r[i].raised # "None"}
        last == IF raising = {} THEN Len(lines)
                ELSE CHOOSE i \in raising : \A j \in raising : i <= j
    IN  [i \in 1..last |-> [line |-> lines[i], gauges |-> r[i].gauges,
                            debug |-> r[i].debug, raised |-> r[i].raised]]

\* `for data_line in data[:max_detailed]: self._get_metrics(...)`: one result per
\* line the loop reached, the last one raising if the loop was left early.
ExtractAll(lines, object_type) ==
    ExtractLoop(lines, [i \in 1..Len(lines) |-> GetMetrics(lines[i], object_type)])

\* A variant of the head of get_stats that tests the limit before it fetches
GetStatsHeadLimitFirst(srv, base_url, object_type, max_detailed, filters) ==
    LET url == UrlJoin(base_url, object_type)
        data == GetData(srv, url)
        explicit_filters == ExplicitFilters(filters.explicit)
    IN  IF Len(explicit_filters.items) > max_detailed
        THEN [http |-> <<>>, exc |-> "Exception", data |-> <<>>,
              explicit_filters |-> explicit_filters]
        ELSE IF data.exc # "None"
        THEN [http |-> <<url>>, exc |-> data.exc, data |-> <<>>,
              explicit_filters |-> explicit_filters]
        ELSE [http |-> <<url>>, exc |-> "None", data |-> data.json.l,
              explicit_filters |-> explicit_filters]

\* get_stats up to line 209: the fetch, the copy of the explicit list and the
\* limit on its length, in the order the code takes them.
GetStatsHead(srv, base_url, object_type, max_detailed, filters) ==
    LET url == UrlJoin(base_url, object_type)
        data == GetData(srv, url)
        explicit_filters == ExplicitFilters(filters.explicit)
    IN  IF data.exc # "None"
        THEN [http |-> <<url>>, exc |-> data.exc, data |-> <<>>,
              explicit_filters |-> explicit_filters]
        ELSE IF Len(explicit_filters.items) > max_detailed
        THEN [http |-> <<url>>, exc |-> "Exception", data |-> <<>>,
              explicit_filters |-> explicit_filters]
        ELSE [http |-> <<url>>, exc |-> "None", data |-> data.json.l,
              explicit_filters |-> explicit_filters]

\* get_stats from line 257 on, with f the outcome of the filtering pass: the
\* alert, the warning and the extraction loop.
GetStatsTail(alerted, base_url, object_type, max_detailed, filters, head, f) ==
    LET data == f.matching_lines
        al == IF AboveThreshold(Len(data), max_detailed)
              THEN Alert(alerted, base_url, max_detailed, Len(data), object_type)
              ELSE [alerted |-> alerted, events |-> <<>>]
        metrics == ExtractAll(SliceTo(data, max_detailed), object_type)
    IN  [ran |-> TRUE, object_type |-> object_type, base_url |-> base_url,
         max_detailed |-> max_detailed, http |-> head.http,
         raised |-> IF metrics # <<>> /\ metrics[Len(metrics)].raised # "None"
                    THEN metrics[Len(metrics)].raised ELSE "None",
         filtered |-> TRUE, raw |-> head.data, data |-> data, how |-> f.how,
         filters_explicit |-> IF head.explicit_filters.shared THEN f.explicit
                              ELSE filters.explicit,
         alerted |-> al.alerted, events |-> al.events,
         warnings |-> IF Len(data) > max_detailed THEN 1 ELSE 0,
         metrics |-> metrics]

\* get_stats from line 211 on, with head the outcome of its first lines.
GetStatsOn(alerted, tag_families, base_url, object_type, max_detailed, filters, head) ==
    IF head.exc # "None"
    THEN [ran |-> TRUE, object_type |-> object_type, base_url |-> base_url,
          max_detailed |-> max_detailed, http |-> head.http, raised |-> head.exc,
          filtered |-> FALSE, raw |-> <<>>, data |-> <<>>, how |-> <<>>,
          filters_explicit |-> filters.explicit,
          alerted |-> alerted, events |-> <<>>, warnings |-> 0, metrics |-> <<>>]
    ELSE GetStatsTail(alerted, base_url, object_type, max_detailed, filters, head,
                      FilterData(head.data, head.explicit_filters.items, filters.regexes,
                                 object_type, tag_families))

\* get_stats(instance, base_url, object_type, max_detailed, filters): everything
\* the call does, and the exception that leaves it ("None": returned normally).
\*   http      the urls fetched, in order
\*   filtered  whether the call got as far as line 257
\*   raw       the list the API returned;  data: the list after the filters
\*   how       per line of raw, the branch that kept or dropped it
\*   filters_explicit  the caller's filters['explicit'] after the call
\*   metrics   one _get_metrics result per line the extraction loop reached
GetStats(alerted, tag_families, base_url, object_type, max_detailed, filters, srv) ==
    GetStatsOn(alerted, tag_families, base_url, object_type, max_detailed, filters,
               GetStatsHead(srv, base_url, object_type, max_detailed, filters))

----------------------------------------------------------------------------
(* _check_aliveness                                                        *)

VHOSTS_PATH == <<"v", "h", "o", "s", "t", "s">>
ALIVENESS_PATH ==
    <<"a", "l", "i", "v", "e", "n", "e", "s", "s", "-", "t", "e", "s", "t", "/">>
OK_TEXT == <<"o", "k">>

\* A variant of the loop body that takes any non-empty status for a healthy one
AlivenessOfAnyStatus(srv, base_url, vhost) ==
    LET aliveness_url == UrlJoin(base_url, ALIVENESS_PATH \o QuotePlus(vhost))
        r == GetData(srv, aliveness_url)
        status == IF r.json.t # "dict" THEN Null ELSE DictGet(r.json.d, "status", Null)
    IN  [url |-> aliveness_url,
         exc |-> IF r.exc # "None" THEN r.exc
                 ELSE IF r.json.t # "dict" THEN "AttributeError" ELSE "None",
         check |-> [name |-> "rabbitmq.aliveness",
                    status |-> IF Truthy(status) THEN "OK" ELSE "CRITICAL",
                    tags |-> <<[key |-> "vhost", value |-> vhost]>>]]

\* The loop body for one vhost: the url fetched and the service check emitted
\* (none when the fetch raises).
AlivenessOf(srv, base_url, vhost) ==
    LET aliveness_url == UrlJoin(base_url, ALIVENESS_PATH \o QuotePlus(vhost))
        r == GetData(srv, aliveness_url)
        status == IF r.json.t # "dict" THEN Null ELSE DictGet(r.json.d, "status", Null)
    IN  [url |-> aliveness_url,
         exc |-> IF r.exc # "None" THEN r.exc
                 ELSE IF r.json.t # "dict" THEN "AttributeError" ELSE "None",
         check |-> [name |-> "rabbitmq.aliveness",
                    status |-> IF status = Str(OK_TEXT) THEN "OK" ELSE "CRITICAL",
                    tags |-> <<[key |-> "vhost", value |-> vhost]>>]]

RECURSIVE AlivenessLoop(_, _, _)
AlivenessLoop(srv, base_url, vhosts) ==
    IF vhosts = <<>> THEN [http |-> <<>>, checks |-> <<>>, raised |-> "None"]
    ELSE LET a == AlivenessOf(srv, base_url, Head(vhosts))
             rest == AlivenessLoop(srv, base_url, Tail(vhosts))
         IN  IF a.exc # "None"
             THEN [http |-> <<a.url>>, checks |-> <<>>, raised |-> a.exc]
             ELSE [http |-> <<a.url>> \o rest.http, checks |-> <<a.check>> \o rest.checks,
                   raised |-> rest.raised]

\* _check_aliveness(instance, base_url, vhosts): vhosts is the configured list
\* (<<>> when none is configured: `if not vhosts`).
CheckAliveness(srv, base_url, vhosts) ==
    LET vhosts_url == UrlJoin(base_url, VHOSTS_PATH)
        vhosts_response == GetData(srv, vhosts_url)
        listed == [i \in 1..Len(vhosts_response.json.l) |->
                      vhosts_response.json.l[i].d["name"].s]
        loop == AlivenessLoop(srv, base_url, IF vhosts = <<>> THEN listed ELSE vhosts)
    IN  IF vhosts = <<>> /\ vhosts_response.exc # "None"
        THEN [ran |-> TRUE, http |-> <<vhosts_url>>, checks |-> <<>>,
              vhosts |-> <<>>, raised |-> vhosts_response.exc]
        ELSE [ran |-> TRUE,
              http |-> (IF vhosts = <<>> THEN <<vhosts_url>> ELSE <<>>) \o loop.http,
              checks |-> loop.checks,
              vhosts |-> IF vhosts = <<>> THEN listed ELSE vhosts,
              raised |-> loop.raised]

----------------------------------------------------------------------------
(* _get_config                                                             *)

SLASH == <<"/">>

\* An instance is the mapping of the yaml file: rabbitmq_api_url (a string),
\* max_detailed_queues, max_detailed_nodes (numbers), queues, queues_regexes,
\* nodes, nodes_regexes (List values, or something else by mistake), vhosts (a
\* sequence) and tag_families (a boolean), each of them optional.
GetConfig(instance) ==
    LET url == DictGet(instance, "rabbitmq_api_url", <<>>)
        base_url == IF url # <<>> /\ url[Len(url)] = "/" THEN url ELSE url \o SLASH
        q == DictGet(instance, "queues", List(<<>>))
        qr == DictGet(instance, "queues_regexes", List(<<>>))
        n == DictGet(instance, "nodes", List(<<>>))
        nr == DictGet(instance, "nodes_regexes", List(<<>>))
        Failed(exc) == [exc |-> exc, base_url |-> <<>>, max_detailed |-> <<>>,
                        specified |-> <<>>]
    IN  IF url = <<>> THEN Failed("Exception")
        ELSE IF q.t # "list" \/ qr.t # "list" \/ n.t # "list" \/ nr.t # "list"
        THEN Failed("TypeError")
        ELSE [exc |-> "None",
              base_url |-> base_url,
              max_detailed |->
                 [queues |-> DictGet(instance, "max_detailed_queues", MAX_DETAILED_QUEUES),
                  nodes |-> DictGet(instance, "max_detailed_nodes", MAX_DETAILED_NODES)],
              specified |->
                 [queues |-> [explicit |-> q.l, regexes |-> qr.l],
                  nodes |-> [explicit |-> n.l, regexes |-> nr.l]]]

----------------------------------------------------------------------------
(* check                                                                   *)

NotRun == [ran |-> FALSE, raised |-> "None", http |-> <<>>, events |-> <<>>,
           checks |-> <<>>, filtered |-> FALSE]

\* A variant of check without its except clause
CaughtNothing(exc) == FALSE

\* The except clause of check
CaughtByCheck(exc) == exc = "RabbitMQException"

\* A variant of check with a try block of its own around every statement
ReachedWhateverHappened(previous) == previous.ran

\* The statements of the try block run one after the other: a statement is
\* reached when the one before it returned.
Reached(previous) == previous.ran /\ previous.raised = "None"

\* The instance after get_stats has run on its filters[key] list
WithExplicit(instance, key, step) ==
    IF step.ran /\ key \in DOMAIN instance
    THEN [instance EXCEPT ![key] = List(step.filters_explicit)]
    ELSE instance

\* The end of check, once the three steps have run or have been skipped: the
\* rabbitmq.status service check and what the call leaves behind.
\* (In out, again tells that the call before this one was for the same instance.)
\*   steps           the statements of the try block that were entered, in order
\*   service_checks  the rabbitmq.status service checks emitted
\*   raised          the exception check raises to its caller ("None": returns)
CheckStatus(instance, queues, nodes, aliveness) ==
    LET ok == Reached(aliveness)
        exc == IF queues.raised # "None" THEN queues.raised
               ELSE IF nodes.raised # "None" THEN nodes.raised
               ELSE aliveness.raised
    IN  [steps |-> <<"queues">> \o (IF nodes.ran THEN <<"nodes">> ELSE <<>>)
                   \o (IF aliveness.ran THEN <<"aliveness">> ELSE <<>>)
                   \o (IF ok \/ CaughtByCheck(exc) THEN <<"status">> ELSE <<>>),
         queues |-> queues, nodes |-> nodes, aliveness |-> aliveness,
         service_checks |->
             IF ok THEN <<[name |-> "rabbitmq.status", status |-> "OK"]>>
             ELSE IF CaughtByCheck(exc)
             THEN <<[name |-> "rabbitmq.status", status |-> "CRITICAL"]>>
             ELSE <<>>,
         raised |-> IF ok \/ CaughtByCheck(exc) THEN "None" ELSE exc,
         alerted |-> IF nodes.ran THEN nodes.alerted ELSE queues.alerted,
         events |-> queues.events \o nodes.events,
         instance |-> WithExplicit(WithExplicit(instance, "queues", queues),
                                   "nodes", nodes)]

\* check from the aliveness step on
CheckFromAliveness(instance, config, srv, queues, nodes) ==
    CheckStatus(instance, queues, nodes,
                IF Reached(nodes)
                THEN CheckAliveness(srv, config.base_url, DictGet(instance, "vhosts", <<>>))
                ELSE NotRun)

\* check from the node step on
CheckFromNodes(instance, config, srv, queues) ==
    CheckFromAliveness(instance, config, srv, queues,
                       IF Reached(queues)
                       THEN GetStats(queues.alerted, DictGet(instance, "tag_families", FALSE),
                                     config.base_url, NODE_TYPE, config.max_detailed.nodes,
                                     config.specified.nodes, srv)
                       ELSE NotRun)

\* check(instance) once the configuration is resolved.
RunCheck(alerted, instance, config, srv) ==
    CheckFromNodes(instance, config, srv,
                   GetStats(alerted, DictGet(instance, "tag_families", FALSE),
                            config.base_url, QUEUE_TYPE, config.max_detailed.queues,
                            config.specified.queues, srv))

Idle == [called |-> FALSE]

\* The pairs whose get_stats call, in this check, had a filtered list above the
\* alert threshold (read off the lists, not off the events).
AboveIn(r) ==
    {<<st.base_url, st.object_type>> :
        st \in {x \in {r.queues, r.nodes} :
                   /\ x.filtered
                   /\ ALERT_THRESHOLD_DEN * Len(x.data) > ALERT_THRESHOLD_NUM * x.max_detailed}}

\* The scheduler runs check(instances[i]).
Check(i) ==
    \E config \in {GetConfig(instances[i])} :
        IF config.exc # "None"
        THEN /\ out' = [called |-> TRUE, i |-> i, config |-> config, resolved |-> FALSE,
                        raised |-> config.exc, before |-> instances[i]]
             /\ UNCHANGED <<yaml, instances, api, already_alerted, alerts, exceeded>>
        ELSE \E r \in {RunCheck(already_alerted, instances[i], config, api)} :
             /\ out' = [called |-> TRUE, i |-> i, config |-> config, resolved |-> TRUE,
                        again |-> out.called /\ out.i = i,
                        raised |-> r.raised, steps |-> r.steps, queues |-> r.queues,
                        nodes |-> r.nodes, aliveness |-> r.aliveness,
                        service_checks |-> r.service_checks, before |-> instances[i]]
             /\ instances' = [instances EXCEPT ![i] = r.instance]
             /\ already_alerted' = r.alerted
             /\ alerts' = alerts \o r.events
             /\ exceeded' = exceeded \cup AboveIn(r)
             /\ UNCHANGED <<yaml, api>>

\* The broker's state moves on: one endpoint of the API answers differently
\* from now on.
ApiChange(answers) ==
    /\ api' \in answers
    /\ DOMAIN api' = DOMAIN api
    /\ Cardinality({u \in DOMAIN api : api'[u] # api[u]}) = 1
    /\ UNCHANGED <<yaml, instances, already_alerted, out, alerts, exceeded>>

----------------------------------------------------------------------------
(* The values the specifications draw from                                 *)

\* All sequences over S of length at most n
RECURSIVE SeqsUpTo(_, _)
SeqsUpTo(S, n) ==
    IF n = 0 THEN {<<>>}
    ELSE LET shorter == SeqsUpTo(S, n - 1)
         IN  shorter \cup {Append(l, x) : l \in {m \in shorter : Len(m) = n - 1}, x \in S}

\* All mappings that give each key of keys one of the values choices[key] (a
\* sequence), or leave it out when the key is optional.
RECURSIVE Mappings(_, _, _)
Mappings(keys, choices, optional) ==
    IF keys = {} THEN {<<>>}
    ELSE LET k == CHOOSE x \in keys : TRUE
             rest == Mappings(keys \ {k}, choices, optional)
         IN  {DictSet(m, k, choices[k][j]) : m \in rest, j \in 1..Len(choices[k])}
             \cup (IF k \in optional THEN rest ELSE {})

Ok(json) == [status |-> "ok", json |-> json]
HttpError == [status |-> "http_error", json |-> Null]
BadJson == [status |-> "bad_json", json |-> Null]

URL_H == <<"h", "/">>
NAME_A == <<"a">>
NAME_B == <<"b">>
VHOST_ROOT == <<"/">>
VHOST_W == <<"w">>

Queue(name, vhost) == [k \in {"name", "vhost"} |-> IF k = "name" THEN Str(name) ELSE Str(vhost)]
Node(name) == [k \in {"name"} |-> Str(name)]
Vhost(name) == Dict([k \in {"name"} |-> Str(name)])
Status(text) == Dict([k \in {"status"} |-> Str(text)])

\* the urls of the API under base_url
QueuesUrl(base_url) == UrlJoin(base_url, QUEUE_TYPE)
NodesUrl(base_url) == UrlJoin(base_url, NODE_TYPE)
VhostsUrl(base_url) == UrlJoin(base_url, VHOSTS_PATH)
AlivenessUrl(base_url, quoted) == UrlJoin(base_url, ALIVENESS_PATH \o quoted)

----------------------------------------------------------------------------
(* Spec: one instance, an API that may fail at every endpoint              *)

MainInstances ==
    Mappings({"rabbitmq_api_url", "vhosts", "queues", "max_detailed_queues"},
             [rabbitmq_api_url |-> <<URL_H, <<"h">> >>,
              vhosts |-> << <<VHOST_ROOT>>, <<VHOST_W, VHOST_ROOT>> >>,
              queues |-> <<List(<<NAME_A>>), List(<<NAME_A, NAME_B>>)>>,
              max_detailed_queues |-> <<1>>],
             {"rabbitmq_api_url", "vhosts", "queues"})

MainQueues ==
    {HttpError, BadJson, Ok(List(<<>>)),
     Ok(List(<<DictSet(Queue(NAME_A, VHOST_ROOT), "messages", Num(5))>>)),
     Ok(List(<<DictSet(Queue(NAME_A, VHOST_ROOT), "consumers", List(<<>>)),
               DictSet(Queue(NAME_B, VHOST_W), "messages", Num(0))>>))}

MainNodes ==
    {HttpError, Ok(List(<<DictSet(Node(NAME_A), "fd_used", Num(3))>>)),
     Ok(List(<<DictSet(Node(NAME_A), "partitions", Num(0))>>))}

MainApi ==
    {[u \in {QueuesUrl(URL_H), NodesUrl(URL_H), VhostsUrl(URL_H),
             AlivenessUrl(URL_H, <<"%", "2", "F">>), AlivenessUrl(URL_H, VHOST_W)} |->
        CASE u = QueuesUrl(URL_H) -> q
          [] u = NodesUrl(URL_H) -> n
          [] u = VhostsUrl(URL_H) -> v
          [] u = AlivenessUrl(URL_H, VHOST_W) -> w
          [] OTHER -> r] :
        q \in MainQueues, n \in MainNodes,
        v \in {HttpError, Ok(List(<<Vhost(VHOST_ROOT)>>)),
               Ok(List(<<Vhost(VHOST_ROOT), Vhost(VHOST_W)>>))},
        r \in {HttpError, Ok(Status(OK_TEXT)), Ok(Status(<<"f", "a", "i", "l", "e", "d">>)),
               Ok(Dict(<<>>))},
        w \in {BadJson, Ok(Status(OK_TEXT)), Ok(Status(<<"o">>))}}

Init ==
    /\ yaml \in {<<c>> : c \in MainInstances}
    /\ instances = yaml
    /\ api \in MainApi
    /\ already_alerted = <<>>
    /\ out = Idle
    /\ alerts = <<>>
    /\ exceeded = {}

Next == \E i \in DOMAIN instances : Check(i)

Spec == Init /\ [][Next]_vars

----------------------------------------------------------------------------
(* Claims about check and _check_aliveness, under Spec                     *)

Ran == out.called /\ out.resolved
StepsOf(o) == <<o.queues, o.nodes, o.aliveness>>
FetchFailedIn(st) == st.ran /\ st.raised = "RabbitMQException"
AnyFetchFailed == \E k \in 1..3 : FetchFailedIn(StepsOf(out)[k])
AllReturned == \A k \in 1..3 : StepsOf(out)[k].ran /\ StepsOf(out)[k].raised = "None"
StatusChecks(status) == <<[name |-> "rabbitmq.status", status |-> status]>>

\* C1 as stated: a fetch or parse failure in any step is never raised, and gives
\* exactly one rabbitmq.status CRITICAL and no OK; when no fetch fails, check
\* emits exactly one rabbitmq.status OK after the queue, node and aliveness steps.
C1_AsStated ==
    Ran =>
        /\ AnyFetchFailed =>
              out.raised = "None" /\ out.service_checks = StatusChecks("CRITICAL")
        /\ ~AnyFetchFailed =>
              /\ out.service_checks = StatusChecks("OK")
              /\ out.steps = <<"queues", "nodes", "aliveness", "status">>

\* C1, amended: a fetch or parse failure in any step is never raised and gives
\* exactly one rabbitmq.status CRITICAL and no OK; when the three steps return,
\* check emits exactly one rabbitmq.status OK, after them; when a step raises
\* anything else (the limit on the explicit list, an error _get_metrics lets
\* through), check raises it to the caller and emits no rabbitmq.status.
C1_StatusOfCheck ==
    Ran =>
        /\ AnyFetchFailed =>
              /\ out.raised = "None"
              /\ out.service_checks = StatusChecks("CRITICAL")
              /\ out.steps[Len(out.steps)] = "status"
        /\ AllReturned =>
              /\ out.raised = "None"
              /\ out.service_checks = StatusChecks("OK")
              /\ out.steps = <<"queues", "nodes", "aliveness", "status">>
        /\ (~AnyFetchFailed /\ ~AllReturned) =>
              /\ out.raised \in {"Exception", "TypeError", "AttributeError"}
              /\ out.service_checks = <<>>
              /\ \E k \in 1..3 : StepsOf(out)[k].ran /\ StepsOf(out)[k].raised = out.raised

\* C1's case: the queue and node steps returned and an aliveness probe failed.
C1_Witness ==
    /\ Ran
    /\ out.queues.raised = "None" /\ out.nodes.ran /\ out.nodes.raised = "None"
    /\ FetchFailedIn(out.aliveness)
    /\ Len(out.aliveness.http) >= 2
    /\ out.service_checks = StatusChecks("CRITICAL")

\* C5 as stated: a fetch failure in one step aborts only that step, the other
\* steps of the same invocation are still executed.
C5_AsStated ==
    (Ran /\ AnyFetchFailed) => \A k \in 1..3 : StepsOf(out)[k].ran

\* C5, amended: a fetch failure in one step aborts that step and every later
\* step of the same invocation: no later step is entered, what the earlier
\* steps and the failing step had emitted stands, and rabbitmq.status CRITICAL
\* is the only thing emitted after the failure.
C5_AbortsTheRest ==
    Ran =>
        \A k \in 1..3 :
            FetchFailedIn(StepsOf(out)[k]) =>
                /\ \A j \in 1..(k - 1) : StepsOf(out)[j].ran /\ StepsOf(out)[j].raised = "None"
                /\ \A j \in (k + 1)..3 : ~StepsOf(out)[j].ran
                /\ Len(out.steps) = k + 1
                /\ out.service_checks = StatusChecks("CRITICAL")

\* C5's case: the queue fetch failed although nodes and vhosts would have answered.
C5_Witness ==
    /\ Ran
    /\ FetchFailedIn(out.queues)
    /\ api[NodesUrl(out.config.base_url)].status = "ok"
    /\ api[VhostsUrl(out.config.base_url)].status = "ok"
    /\ ~out.nodes.ran /\ ~out.aliveness.ran

\* The vhosts _check_aliveness has to probe: the configured list or, when none
\* is configured, the names the vhosts endpoint lists.
VhostsToProbe ==
    LET configured == DictGet(out.before, "vhosts", <<>>)
        listed == api[VhostsUrl(out.config.base_url)].json.l
    IN  IF configured # <<>> THEN configured
        ELSE [i \in 1..Len(listed) |-> listed[i].d["name"].s]

\* The aliveness url of a vhost of the model, written out
ProbeUrl(vhost) ==
    IF vhost = VHOST_ROOT
    THEN out.config.base_url \o ALIVENESS_PATH \o <<"%", "2", "F">>
    ELSE out.config.base_url \o ALIVENESS_PATH \o vhost

EveryAlivenessFetchSucceeds ==
    /\ DictGet(out.before, "vhosts", <<>>) = <<>>
          => api[VhostsUrl(out.config.base_url)].status = "ok"
    /\ \A i \in 1..Len(VhostsToProbe) : api[ProbeUrl(VhostsToProbe[i])].status = "ok"

\* C7: when every fetch succeeds, _check_aliveness emits exactly one
\* rabbitmq.aliveness service check per vhost, in list order, over the configured
\* vhosts or else the listed ones, tagged vhost:<name>, OK exactly when the
\* response's status is "ok" and CRITICAL for any other or missing status.
C7_AlivenessPerVhost ==
    (Ran /\ out.aliveness.ran /\ EveryAlivenessFetchSucceeds) =>
        /\ out.aliveness.raised = "None"
        /\ Len(out.aliveness.checks) = Len(VhostsToProbe)
        /\ \A i \in 1..Len(VhostsToProbe) :
              LET response == api[ProbeUrl(VhostsToProbe[i])].json.d
                  c == out.aliveness.checks[i]
              IN  /\ c.name = "rabbitmq.aliveness"
                  /\ c.tags = <<[key |-> "vhost", value |-> VhostsToProbe[i]]>>
                  /\ c.status = IF "status" \in DOMAIN response
                                   /\ response["status"] = Str(OK_TEXT)
                                THEN "OK" ELSE "CRITICAL"

\* C7's case: no vhost configured, two listed, one alive and one not.
C7_Witness ==
    /\ Ran /\ out.aliveness.ran /\ EveryAlivenessFetchSucceeds
    /\ "vhosts" \notin DOMAIN out.before
    /\ Len(out.aliveness.checks) = 2
    /\ out.aliveness.checks[1].status = "CRITICAL"
    /\ out.aliveness.checks[2].status = "OK"

\* The get_stats calls of the last check whose explicit list is longer than
\* max_detailed
OverLimit ==
    IF ~Ran THEN {}
    ELSE {st \in {out.queues, out.nodes} :
            /\ st.ran
            /\ Len(IF st.object_type = QUEUE_TYPE
                   THEN out.config.specified.queues.explicit
                   ELSE out.config.specified.nodes.explicit) > st.max_detailed}

\* C2 as stated: when the explicit names outnumber max_detailed, get_stats
\* fails with a configuration error before any HTTP GET for that object type.
C2_AsStated ==
    \A st \in OverLimit : st.raised = "Exception" /\ st.http = <<>>

\* C2, amended: when the explicit names outnumber max_detailed, get_stats first
\* makes the HTTP GET for that object type; when the GET succeeds it fails with
\* a configuration error before any record is filtered, any alert is posted and
\* any metric is extracted, and when the GET fails it raises the fetch error.
C2_FailsAfterTheFetch ==
    \A st \in OverLimit :
        /\ st.http = <<st.base_url \o st.object_type>>
        /\ st.raised = IF api[st.base_url \o st.object_type].status = "ok"
                       THEN "Exception" ELSE "RabbitMQException"
        /\ ~st.filtered /\ st.events = <<>> /\ st.metrics = <<>> /\ st.warnings = 0

\* C2's case: two explicit names, max_detailed 1, and the API answered.
C2_Witness ==
    \E st \in OverLimit : st.raised = "Exception" /\ st.http # <<>>

----------------------------------------------------------------------------
(* SpecAlert: three instances over two brokers whose record lists change   *)

URL_G == <<"g", "/">>

\* Two instances name the same broker (the second url lacks the final '/'), one
\* of them with a regex that keeps only the queues with a 'b' in their name.
AlertInstances ==
    <<[rabbitmq_api_url |-> URL_H, max_detailed_queues |-> 2, max_detailed_nodes |-> 1,
       vhosts |-> <<VHOST_W>>],
      [rabbitmq_api_url |-> <<"h">>, max_detailed_queues |-> 2, max_detailed_nodes |-> 1,
       vhosts |-> <<VHOST_W>>, queues_regexes |-> List(<<Pattern(<<"b">>, 0, 0)>>)],
      [rabbitmq_api_url |-> URL_G, max_detailed_queues |-> 2, max_detailed_nodes |-> 1,
       vhosts |-> <<VHOST_W>>]>>

AlertQueues ==
    {Ok(List(<<Queue(NAME_A, VHOST_W)>>)),
     Ok(List(<<Queue(NAME_B, VHOST_W), Queue(<<"a", "b">>, VHOST_W)>>))}

AlertNodes == {Ok(List(<<>>)), Ok(List(<<Node(NAME_A)>>))}

AlertApi ==
    {[u \in {QueuesUrl(URL_H), NodesUrl(URL_H), AlivenessUrl(URL_H, VHOST_W),
             QueuesUrl(URL_G), NodesUrl(URL_G), AlivenessUrl(URL_G, VHOST_W)} |->
        CASE u = QueuesUrl(URL_H) -> qh
          [] u = NodesUrl(URL_H) -> nh
          [] u = QueuesUrl(URL_G) -> qg
          [] u = NodesUrl(URL_G) -> ng
          [] OTHER -> Ok(Status(OK_TEXT))] :
        qh \in AlertQueues, nh \in AlertNodes, qg \in AlertQueues, ng \in AlertNodes}

InitAlert ==
    /\ yaml = AlertInstances
    /\ instances = yaml
    /\ api \in AlertApi
    /\ already_alerted = <<>>
    /\ out = Idle
    /\ alerts = <<>>
    /\ exceeded = {}

NextAlert ==
    \/ \E i \in DOMAIN instances : Check(i)
    \/ ApiChange(AlertApi)

SpecAlert == InitAlert /\ [][NextAlert]_vars

EventsFor(base_url, object_type) ==
    {i \in 1..Len(alerts) :
        alerts[i].base_url = base_url /\ alerts[i].object_type = object_type}

\* C3: over any sequence of get_stats calls on one check object, the number of
\* 'approaching the limit' events for a (base_url, object_type) pair is 1 when
\* one of the calls for the pair had a filtered list longer than 90% of
\* max_detailed and 0 otherwise: a repeated call posts nothing more, and a pair
\* that differs in base_url or in object_type has an event of its own.
C3_OneAlertPerPair ==
    \A base_url \in {URL_H, URL_G}, object_type \in {QUEUE_TYPE, NODE_TYPE} :
        Cardinality(EventsFor(base_url, object_type)) =
            IF <<base_url, object_type>> \in exceeded THEN 1 ELSE 0

\* C3's case: all four pairs have had their event, and the last call was above
\* the threshold again and posted nothing.
C3_Witness ==
    /\ Len(alerts) = 4
    /\ Ran
    /\ Len(out.queues.data) = 2 /\ out.queues.events = <<>>
    /\ Len(out.nodes.data) = 1 /\ out.nodes.events = <<>>

----------------------------------------------------------------------------
(* SpecFilter: one instance with explicit names and regexes                *)

\* The longest record list the API returns
MaxLines == 2

VHOST_V == <<"v">>
NAME_AB == <<"a", "b">>

\* (a), b, (.)b and (v)/
RE_A == Pattern(<<"a">>, 1, 1)
RE_B == Pattern(<<"b">>, 0, 0)
RE_ANY_B == Pattern(<<ANY, "b">>, 1, 1)
RE_V_SLASH == Pattern(<<"v", "/">>, 1, 1)

FilterInstances ==
    {DictSet(DictSet(m, "rabbitmq_api_url", URL_H), "vhosts", <<VHOST_W>>) :
        m \in Mappings({"queues", "queues_regexes", "tag_families", "nodes"},
                       [queues |-> <<List(<<NAME_A>>), List(<<NAME_A, NAME_A>>),
                                     List(<<NAME_A, VHOST_W \o SLASH \o NAME_A>>),
                                     List(<<VHOST_V \o SLASH \o NAME_B>>)>>,
                        queues_regexes |-> <<List(<<RE_A>>), List(<<RE_B, RE_ANY_B>>),
                                             List(<<RE_V_SLASH>>)>>,
                        tag_families |-> <<TRUE>>,
                        nodes |-> <<List(<<NAME_B>>)>>],
                       {"queues", "queues_regexes", "tag_families", "nodes"})}

FilterQueues ==
    SeqsUpTo({Queue(n, v) : n \in {NAME_A, NAME_B, NAME_AB}, v \in {VHOST_V, VHOST_W}},
             MaxLines)

FilterApi ==
    {[u \in {QueuesUrl(URL_H), NodesUrl(URL_H), AlivenessUrl(URL_H, VHOST_W)} |->
        CASE u = QueuesUrl(URL_H) -> Ok(List(q))
          [] u = NodesUrl(URL_H) -> Ok(List(<<Node(NAME_B), Node(NAME_B), Node(NAME_A)>>))
          [] OTHER -> Ok(Status(OK_TEXT))] : q \in FilterQueues}

InitFilter ==
    /\ yaml \in {<<c>> : c \in FilterInstances}
    /\ instances = yaml
    /\ api \in FilterApi
    /\ already_alerted = <<>>
    /\ out = Idle
    /\ alerts = <<>>
    /\ exceeded = {}

SpecFilter == InitFilter /\ [][Next]_vars

----------------------------------------------------------------------------
(* Claims about the filtering pass of get_stats, under SpecFilter          *)

\* The get_stats calls of the last check that went through the filters
Filtering ==
    IF ~Ran THEN {}
    ELSE {st \in {out.queues, out.nodes} :
            /\ st.filtered
            /\ \E i \in 1..Len(st.how) : st.how[i] # "all"}

\* The filters the yaml file gives for the object type of st
YamlFilters(st) ==
    LET y == yaml[out.i]
    IN  IF st.object_type = QUEUE_TYPE
        THEN [explicit |-> DictGet(y, "queues", List(<<>>)).l,
              regexes |-> DictGet(y, "queues_regexes", List(<<>>)).l]
        ELSE [explicit |-> DictGet(y, "nodes", List(<<>>)).l,
              regexes |-> DictGet(y, "nodes_regexes", List(<<>>)).l]

NameOf(line) == line["name"].s
AbsNameOf(line) == line["vhost"].s \o <<"/">> \o line["name"].s
Kept(st) == {i \in 1..Len(st.raw) : st.how[i] # "dropped"}
\* the line of st.data that line i of st.raw became
KeptLine(st, i) == st.data[Cardinality({j \in Kept(st) : j <= i})]
Matches(regexes, subject) == {j \in 1..Len(regexes) : ReSearch(regexes[j], subject).matched}
Occurrences(e, l) == Cardinality({j \in 1..Len(l) : l[j] = e})

\* C4 as stated: of the records whose name equals an explicit entry, exactly
\* one is kept.
C4_AsStated ==
    \A st \in Filtering :
        \A i \in 1..Len(st.raw) :
            InList(NameOf(st.raw[i]), YamlFilters(st).explicit) =>
                Cardinality({j \in Kept(st) : NameOf(st.raw[j]) = NameOf(st.raw[i])}) = 1

\* C4, amended: in one filtering pass each occurrence of a name in the explicit
\* list keeps exactly one record by its name, the first records of that name in
\* the order of the API, and is removed when it matches; a further record of
\* that name is no longer kept by its name, but it is still kept when a regex
\* matches its name or, for a queue, when its absolute name is an explicit entry
\* or matches a regex.
C4_OneRecordPerEntry ==
    \A st \in Filtering :
        \A i \in 1..Len(st.raw) :
            LET f == YamlFilters(st)
                name == NameOf(st.raw[i])
                rank == Cardinality({j \in 1..i : NameOf(st.raw[j]) = name})
                isQueue == st.object_type = QUEUE_TYPE
            IN  InList(name, f.explicit) =>
                    IF rank <= Occurrences(name, f.explicit)
                    THEN st.how[i] = "explicit"
                    ELSE /\ st.how[i] # "explicit"
                         /\ st.how[i] = "regex" <=> Matches(f.regexes, name) # {}
                         /\ st.how[i] = "abs_explicit" =>
                               isQueue /\ InList(AbsNameOf(st.raw[i]), f.explicit)
                         /\ st.how[i] = "abs_regex" =>
                               isQueue /\ Matches(f.regexes, AbsNameOf(st.raw[i])) # {}
                         /\ st.how[i] = "dropped" =>
                               ~isQueue \/ Matches(f.regexes, AbsNameOf(st.raw[i])) = {}

\* C4's case: two records with the one explicit name; the first is kept and the
\* second finds the name gone.
C4_Witness ==
    \E st \in Filtering :
        /\ YamlFilters(st).explicit = <<NAME_A>>
        /\ Len(st.raw) = 2
        /\ NameOf(st.raw[1]) = NAME_A /\ NameOf(st.raw[2]) = NAME_A
        /\ st.how = <<"explicit", "dropped">>

TagFamilies == Ran /\ DictGet(yaml[out.i], "tag_families", FALSE) = TRUE

\* C9 as stated: with tag_families enabled, a kept record that matches a
\* pattern with a capture group has queue_family equal to that pattern's first
\* captured group.
C9_AsStated ==
    TagFamilies =>
        \A st \in Filtering :
            \A i \in Kept(st) :
                \A j \in Matches(YamlFilters(st).regexes, NameOf(st.raw[i])) :
                    LET p == YamlFilters(st).regexes[j]
                        line == KeptLine(st, i)
                    IN  p.gs # 0 =>
                            /\ "queue_family" \in DOMAIN line
                            /\ line["queue_family"] =
                                  Str(ReSearch(p, NameOf(st.raw[i])).groups[1])

\* C9, amended: with tag_families enabled, a record kept by a regex gains
\* queue_family equal to the first captured group of the first pattern, in list
\* order, that matches its name (or, when none matches its name, its absolute
\* name), when that pattern has a capture group; a record kept by an explicit
\* entry, or whose first matching pattern has no group, is kept as the API
\* returned it, and so is every record when tag_families is off.
C9_FamilyOfFirstMatch ==
    \A st \in Filtering :
        \A i \in Kept(st) :
            LET regexes == YamlFilters(st).regexes
                subject == IF st.how[i] = "regex" THEN NameOf(st.raw[i])
                           ELSE AbsNameOf(st.raw[i])
                hits == Matches(regexes, subject)
                first == CHOOSE j \in hits : \A k \in hits : j <= k
                byRegex == st.how[i] \in {"regex", "abs_regex"}
            IN  /\ byRegex => hits # {}
                /\ KeptLine(st, i) =
                      IF byRegex /\ TagFamilies /\ regexes[first].gs # 0
                      THEN DictSet(st.raw[i], "queue_family",
                                   Str(ReSearch(regexes[first], subject).groups[1]))
                      ELSE st.raw[i]

\* C9's case: with tag_families on, a record kept by a regex and tagged with what
\* (a) captures in its name or (v)/ in its absolute name.
C9_Witness ==
    /\ TagFamilies
    /\ \E st \in Filtering :
          \E i \in Kept(st) :
              /\ st.how[i] \in {"regex", "abs_regex"}
              /\ "queue_family" \in DOMAIN KeptLine(st, i)
              /\ KeptLine(st, i)["queue_family"] \in {Str(<<"v">>), Str(<<"a">>)}

\* C10: get_stats leaves the instance's explicit list as the configuration has
\* it (the names a pass consumes leave a copy only), so every check finds every
\* configured name again and keeps what a first check of the same API answer
\* keeps; a check that repeats the one before it, on the same answer, keeps the
\* same records.
C10_ExplicitListUnchanged ==
    /\ [](/\ instances = yaml
          /\ \A st \in Filtering :
                st.data = FilterData(st.raw, YamlFilters(st).explicit,
                                     YamlFilters(st).regexes, st.object_type,
                                     DictGet(yaml[out.i], "tag_families", FALSE)
                                    ).matching_lines)
    /\ [][(out.called /\ out.resolved /\ out'.again /\ api' = api)
             => (/\ out'.queues.data = out.queues.data
                 /\ out'.nodes.ran = out.nodes.ran
                 /\ out.nodes.ran => out'.nodes.data = out.nodes.data)]_vars

\* C10's case: a check repeated on the same instance, in whose pass an explicit
\* name was consumed.
C10_Witness ==
    /\ Ran /\ out.again
    /\ \E st \in Filtering : \E i \in 1..Len(st.how) : st.how[i] = "explicit"
    /\ \E st \in Filtering : \E i \in 1..Len(st.how) : st.how[i] = "dropped"

----------------------------------------------------------------------------
(* SpecMetrics: records whose attributes are absent, null, of the wrong    *)
(* type or well formed                                                     *)

QueueShapes ==
    {DictSet(DictSet(m, "name", Str(NAME_A)), "vhost", Str(VHOST_W)) :
        m \in Mappings({"messages", "messages_details", "memory"},
                       [messages |-> <<Num(0), Num(5), Str(NAME_AB), Str(<<"1", "2">>),
                                       List(<<>>), Null>>,
                        messages_details |-> <<Dict([rate |-> Num(2)]), Dict(<<>>), Num(3)>>,
                        memory |-> <<Num(7)>>],
                       {"messages", "messages_details", "memory"})}

\* the shapes the lists of several records are made of
QueueLineShapes ==
    {q \in QueueShapes :
        \/ DOMAIN q = {"name", "vhost"}
        \/ DOMAIN q = {"name", "vhost", "messages"} /\ q["messages"] = Num(5)
        \/ DOMAIN q = {"name", "vhost", "messages", "memory"}
              /\ q["messages"] \in {Str(NAME_AB), List(<<>>)}}

NodeShapes ==
    {DictSet(m, "name", Str(NAME_A)) :
        m \in Mappings({"partitions", "fd_used"},
                       [partitions |-> <<List(<<>>), List(<<Str(NAME_B)>>), Num(2),
                                         Str(NAME_AB), Null>>,
                        fd_used |-> <<Num(4), Str(NAME_AB), List(<<>>)>>],
                       {"partitions", "fd_used"})}

NodeLineShapes ==
    {n \in NodeShapes :
        \/ DOMAIN n = {"name", "fd_used"} /\ n["fd_used"] = Num(4)
        \/ DOMAIN n = {"name", "partitions"} /\ n["partitions"].t \in {"list", "num"}}

MetricsInstances ==
    {DictSet(DictSet(m, "rabbitmq_api_url", URL_H), "vhosts", <<VHOST_W>>) :
        m \in Mappings({"max_detailed_queues", "max_detailed_nodes"},
                       [max_detailed_queues |-> <<0, 1>>, max_detailed_nodes |-> <<1>>],
                       {"max_detailed_queues", "max_detailed_nodes"})}

MetricsApiOf(queues, nodes) ==
    [u \in {QueuesUrl(URL_H), NodesUrl(URL_H), AlivenessUrl(URL_H, VHOST_W)} |->
        CASE u = QueuesUrl(URL_H) -> Ok(List(queues))
          [] u = NodesUrl(URL_H) -> Ok(List(nodes))
          [] OTHER -> Ok(Status(OK_TEXT))]

MetricsApi ==
    {MetricsApiOf(q, <<>>) :
        q \in {<<x>> : x \in QueueShapes} \cup SeqsUpTo(QueueLineShapes, MaxLines)}
    \cup {MetricsApiOf(<<>>, n) :
        n \in {<<x>> : x \in NodeShapes} \cup SeqsUpTo(NodeLineShapes, MaxLines)}

InitMetrics ==
    /\ yaml \in {<<c>> : c \in MetricsInstances}
    /\ instances = yaml
    /\ api \in MetricsApi
    /\ already_alerted = <<>>
    /\ out = Idle
    /\ alerts = <<>>
    /\ exceeded = {}

SpecMetrics == InitMetrics /\ [][Next]_vars

----------------------------------------------------------------------------
(* Claims about truncation and _get_metrics, under SpecMetrics             *)

\* The get_stats calls of the last check that got to the extraction loop
Extracting == IF ~Ran THEN {} ELSE {st \in {out.queues, out.nodes} : st.filtered}

\* The value an attribute path leads to in a record; Null when a key of the path
\* is absent or the value at it is null.
RECURSIVE Lookup(_, _)
Lookup(value, keys) ==
    IF keys = <<>> THEN value
    ELSE IF value.t = "dict" /\ Head(keys) \in DOMAIN value.d
    THEN Lookup(value.d[Head(keys)], Tail(keys))
    ELSE Null

\* The attribute's value is present and its transform succeeds on it.
Transformable(line, attr) ==
    /\ Lookup(Dict(line), attr[1]).t # "null"
    /\ Operation(attr[3], Lookup(Dict(line), attr[1])).exc = "None"

\* C8 as stated: _get_metrics never propagates an error for a single attribute;
\* an attribute whose path is absent, whose value is absent or null or whose
\* transform fails emits no gauge, and every other attribute of the table, a
\* present zero included, emits its gauge.
C8_AsStated ==
    \A st \in Extracting :
        \A k \in 1..Len(st.metrics) :
            LET m == st.metrics[k]
                attrs == ATTRIBUTES(st.object_type)
            IN  /\ m.raised = "None"
                /\ \A a \in 1..Len(attrs) :
                      Transformable(m.line, attrs[a]) <=>
                          \E g \in m.gauges :
                              g.metric = <<METRIC_SUFFIX(st.object_type), attrs[a][2]>>

\* C6 as stated: get_stats runs the extraction on exactly the first
\* min(n, max_detailed) records of the filtered list, in the order of the API,
\* and logs the 'too many' warning exactly when n > max_detailed.
C6_AsStated ==
    \A st \in Extracting :
        /\ [k \in 1..Len(st.metrics) |-> st.metrics[k].line] =
              SubSeq(st.data, 1, IF Len(st.data) <= st.max_detailed
                                 THEN Len(st.data) ELSE st.max_detailed)
        /\ st.warnings = 1 <=> Len(st.data) > st.max_detailed

====
